---- MODULE Spec2Model ----
(***************************************************************************)
(* A model of BehaviorAnalysisBot (src/bot.py): the SQLite history store   *)
(* behind one shared connection, the message handler that ingests a text   *)
(* and the four report commands computed from the stored rows.             *)
(*                                                                         *)
(* Texts are sequences of one-character strings, so that lower(), split(), *)
(* ' '.join() and str.count() are computed character by character.         *)
(* Polarities are hundredths (0.1 is 10); timestamps are whole hours       *)
(* counted from a midnight, so the hour of day is ts % 24 and the calendar *)
(* date is ts \div 24.  Rows written within the same hour keep their       *)
(* insertion order, which is their timestamp order.                        *)
(***************************************************************************)
EXTENDS Integers, Sequences, FiniteSets, TLC

VARIABLES
  conn,         \* what self.conn sees: the tables, pending changes included
  disk,         \* what is committed to bot_data.db
  now,          \* the clock reading (datetime.now()) of the latest update
  last,         \* the latest handled update and what the handler answered
  prev,         \* the update handled before it
  feedbackLog   \* per user, the "Message #N" numbers of the feedback sent

vars == <<conn, disk, now, last, prev, feedbackLog>>

Users == {"u1", "u2"}

----------------------------------------------------------------------------
(* Lexicon: bot.py 33-42                                                   *)

personality_indicators ==
  [ extraversion |-> <<
        <<"p","a","r","t","y">>,   \* party
        <<"f","r","i","e","n","d","s">>,   \* friends
        <<"s","o","c","i","a","l">>,   \* social
        <<"o","u","t","g","o","i","n","g">>,   \* outgoing
        <<"e","n","e","r","g","y">>,   \* energy
        <<"t","a","l","k">>,   \* talk
        <<"p","e","o","p","l","e">>   \* people
      >>,
    openness |-> <<
        <<"c","r","e","a","t","i","v","e">>,   \* creative
        <<"a","r","t">>,   \* art
        <<"n","e","w">>,   \* new
        <<"e","x","p","l","o","r","e">>,   \* explore
        <<"i","m","a","g","i","n","a","t","i","o","n">>,   \* imagination
        <<"c","u","r","i","o","u","s">>,   \* curious
        <<"d","i","f","f","e","r","e","n","t">>   \* different
      >>,
    conscientiousness |-> <<
        <<"o","r","g","a","n","i","z","e","d">>,   \* organized
        <<"p","l","a","n">>,   \* plan
        <<"s","c","h","e","d","u","l","e">>,   \* schedule
        <<"w","o","r","k">>,   \* work
        <<"g","o","a","l">>,   \* goal
        <<"d","i","s","c","i","p","l","i","n","e">>,   \* discipline
        <<"c","o","m","p","l","e","t","e">>   \* complete
      >>,
    agreeableness |-> <<
        <<"h","e","l","p">>,   \* help
        <<"k","i","n","d">>,   \* kind
        <<"s","u","p","p","o","r","t">>,   \* support
        <<"c","a","r","e">>,   \* care
        <<"t","e","a","m">>,   \* team
        <<"c","o","o","p","e","r","a","t","i","o","n">>,   \* cooperation
        <<"p","l","e","a","s","e">>   \* please
      >>,
    neuroticism |-> <<
        <<"s","t","r","e","s","s">>,   \* stress
        <<"w","o","r","r","y">>,   \* worry
        <<"a","n","x","i","o","u","s">>,   \* anxious
        <<"n","e","r","v","o","u","s">>,   \* nervous
        <<"f","e","a","r">>,   \* fear
        <<"s","a","d">>,   \* sad
        <<"u","p","s","e","t">>   \* upset
      >> ]

TraitOrder ==
  <<"extraversion", "openness", "conscientiousness", "agreeableness",
    "neuroticism">>

Traits == {TraitOrder[i] : i \in 1..Len(TraitOrder)}

stress_keywords ==
  <<
    <<"d","e","a","d","l","i","n","e">>,   \* deadline
    <<"p","r","e","s","s","u","r","e">>,   \* pressure
    <<"o","v","e","r","w","h","e","l","m","e","d">>,   \* overwhelmed
    <<"c","a","n","'","t">>,   \* can't
    <<"t","o","o"," ","m","u","c","h">>,   \* too much
    <<"t","i","r","e","d">>,   \* tired
    <<"e","x","h","a","u","s","t","e","d">>   \* exhausted
  >>

UpperCase ==
  <<"A","B","C","D","E","F","G","H","I","J","K","L","M","N","O","P","Q","R","S","T","U","V","W","X","Y","Z">>

LowerCase ==
  <<"a","b","c","d","e","f","g","h","i","j","k","l","m","n","o","p","q","r","s","t","u","v","w","x","y","z">>

----------------------------------------------------------------------------
(* Python's string operations, on sequences of characters                  *)

lowerChar(c) ==
  IF \E i \in 1..Len(UpperCase) : UpperCase[i] = c
  THEN LowerCase[CHOOSE i \in 1..Len(UpperCase) : UpperCase[i] = c]
  ELSE c

\* str.lower()
lower(text) == [i \in 1..Len(text) |-> lowerChar(text[i])]

\* sub in text
contains(text, sub) ==
  \E i \in 1..(Len(text) - Len(sub) + 1) :
    SubSeq(text, i, i + Len(sub) - 1) = sub

RECURSIVE countFrom(_, _, _)
\* the occurrences found from position i on: the leftmost one, then those
\* that start after its end
countFrom(text, sub, i) ==
  LET found == {j \in i..(Len(text) - Len(sub) + 1) :
                  text[j] = sub[1] /\ SubSeq(text, j, j + Len(sub) - 1) = sub}
      first == CHOOSE j \in found : \A x \in found : j <= x
  IN  IF found = {} THEN 0
      ELSE 1 + countFrom(text, sub, first + Len(sub))

\* str.count(sub): the non-overlapping occurrences, scanning from the left
count(text, sub) == countFrom(text, sub, 1)

RECURSIVE join(_)
\* ' '.join(texts)
join(texts) ==
  IF texts = <<>> THEN <<>>
  ELSE IF Len(texts) = 1 THEN texts[1]
  ELSE texts[1] \o <<" ">> \o join(Tail(texts))

\* len(text.split()): the maximal runs of characters other than the blank
wordCount(text) ==
  Cardinality({i \in 1..Len(text) :
                 text[i] # " " /\ (i = 1 \/ text[i - 1] = " ")})

RECURSIVE sumSeq(_)
sumSeq(xs) == IF xs = <<>> THEN 0 ELSE xs[1] + sumSeq(Tail(xs))

min(a, b) == IF a <= b THEN a ELSE b

abs(x) == IF x < 0 THEN -x ELSE x

RECURSIVE gcd(_, _)
gcd(a, b) == IF b = 0 THEN a ELSE gcd(b, a % b)

\* An average kept exact: the fraction num/den in lowest terms, den > 0.
ratio(num, den) ==
  LET g == gcd(abs(num), den)
  IN  [num |-> num \div g, den |-> den \div g]

\* statistics.mean and SQL AVG; xs is not empty
mean(xs) == ratio(sumSeq(xs), Len(xs))

\* q < k/100, q > k/100 for a fraction q and a threshold in hundredths
below(q, k) == q.num * 100 < k * q.den
above(q, k) == q.num * 100 > k * q.den

----------------------------------------------------------------------------
(* The message texts users send, and TextBlob's polarity of each           *)

TxtOk == <<"o","k">>
TxtSad == <<"S","a","d">>
TxtParty == <<"p","a","r","t","y">>
TxtTired == <<"S","o"," ","t","i","r","e","d",","," ",
              "t","o","o"," ","m","u","c","h"," ","w","o","r","k">>

\* messages about stress: a keyword repeated and in capitals, then three,
\* four, five and all seven keywords
TxtTiredThrice == <<"T","I","R","E","D",","," ","t","i","r","e","d",","," ",
                    "T","i","r","e","d">>
TxtThree == <<"t","i","r","e","d",","," ","e","x","h","a","u","s","t","e",
              "d",","," ","t","o","o"," ","m","u","c","h">>
TxtFour == <<"D","e","a","d","l","i","n","e"," ","p","r","e","s","s","u",
             "r","e",":"," ","t","i","r","e","d",","," ","e","x","h","a",
             "u","s","t","e","d">>
TxtFive == <<"D","e","a","d","l","i","n","e"," ","p","r","e","s","s","u",
             "r","e",":"," ","t","i","r","e","d",","," ","e","x","h","a",
             "u","s","t","e","d",","," ","t","o","o"," ","m","u","c","h">>
TxtSeven == <<"d","e","a","d","l","i","n","e"," ","p","r","e","s","s","u",
              "r","e"," ","o","v","e","r","w","h","e","l","m","e","d",",",
              " ","I"," ","c","a","n","'","t",","," ","t","o","o"," ","m",
              "u","c","h",","," ","t","i","r","e","d",","," ","e","x","h",
              "a","u","s","t","e","d">>

\* messages with one trait keyword each ("party" holds "art" as well)
TxtArt == <<"a","r","t">>
TxtHelp == <<"h","e","l","p">>

TraitTexts == {TxtSad, TxtParty, TxtArt, TxtHelp}

StressTexts ==
  {TxtOk, TxtTired, TxtTiredThrice, TxtThree, TxtFour, TxtFive, TxtSeven}

Texts == StressTexts \cup TraitTexts

\* TextBlob(text).sentiment.polarity, in hundredths: the mean of the lexicon
\* values of the words of the text that have one (ok 0.5, sad -0.5,
\* tired -0.4, exhausted -0.4, much 0.2)
textBlobPolarity(text) ==
  CASE text = TxtOk    -> 50
    [] text = TxtSad   -> -50
    [] text = TxtTired -> -10
    [] text = TxtTiredThrice -> -40
    [] text = TxtThree -> -20
    [] text = TxtFour  -> -40
    [] text = TxtFive  -> -20
    [] text = TxtSeven -> -20
    [] OTHER           -> 0

----------------------------------------------------------------------------
(* The scorers                                                             *)

moodOf(polarity) ==
  IF polarity > 10 THEN "Positive"
  ELSE IF polarity < -10 THEN "Negative"
  ELSE "Neutral"

analyze_sentiment(text) ==
  LET polarity == textBlobPolarity(text)
  IN  [polarity |-> polarity,
       mood |-> moodOf(polarity),
       confidence |-> abs(polarity)]

\* every occurrence of a keyword counted, not every keyword
detectStressPerOccurrence(text) ==
  LET text_lower == lower(text)
      stress_count ==
        sumSeq([k \in 1..Len(stress_keywords) |->
                  count(text_lower, stress_keywords[k])])
      stress_level == min(stress_count * 2, 10)
  IN  IF stress_level >= 7
      THEN [level |-> stress_level, category |-> "High Stress"]
      ELSE IF stress_level >= 4
      THEN [level |-> stress_level, category |-> "Moderate Stress"]
      ELSE [level |-> stress_level, category |-> "Low Stress"]

detect_stress_level(text) ==
  LET text_lower == lower(text)
      stress_count ==
        Cardinality({k \in 1..Len(stress_keywords) :
                       contains(text_lower, stress_keywords[k])})
      stress_level == min(stress_count * 2, 10)
  IN  IF stress_level >= 7
      THEN [level |-> stress_level, category |-> "High Stress"]
      ELSE IF stress_level >= 4
      THEN [level |-> stress_level, category |-> "Moderate Stress"]
      ELSE [level |-> stress_level, category |-> "Low Stress"]

----------------------------------------------------------------------------
(* The history store: tables users and messages (bot.py 44-87).  The rows  *)
(* of messages are kept per user_id, in insertion order; every query of    *)
(* the bot selects WHERE user_id = ?.                                      *)

HoursPerDay == 24
DaysPerWeek == 7
FeedbackEvery == 10
MoodWindow == 20
PersonalityWindow == 50
MinReportMessages == 5
ScorePerKeyword == 5
MaxScore == 100

\* a user_id with no row in users
NoRow == [registered |-> FALSE, total_messages |-> 0]

EmptyStore ==
  [users |-> [u \in Users |-> NoRow],
   messages |-> [u \in Users |-> <<>>]]

hourOf(timestamp) == timestamp % HoursPerDay

dateOf(timestamp) == timestamp \div HoursPerDay

\* INSERT OR IGNORE INTO users ...: total_messages takes its DEFAULT 0
insertOrIgnoreUser(c, user_id) ==
  IF c.users[user_id].registered THEN c
  ELSE [c EXCEPT !.users[user_id] =
                   [registered |-> TRUE, total_messages |-> 0]]

\* INSERT INTO messages ...
insertMessage(c, user_id, row) ==
  [c EXCEPT !.messages[user_id] = Append(@, row)]

\* UPDATE users SET total_messages = total_messages + 1 WHERE user_id = ?
updateTotalMessages(c, user_id) ==
  IF ~c.users[user_id].registered THEN c
  ELSE [c EXCEPT !.users[user_id].total_messages = @ + 1]

\* self.conn.commit(): what the connection sees becomes what is stored
commit(st) == [conn |-> st.conn, disk |-> st.conn]

register_user(st, user_id) ==
  commit([st EXCEPT !.conn = insertOrIgnoreUser(st.conn, user_id)])

\* the LIMIT one row too long
recentRowsOneMore(c, user_id, limit) ==
  LET rows == c.messages[user_id]
      n == min(Len(rows), limit + 1)
  IN  [i \in 1..n |-> rows[Len(rows) + 1 - i]]

\* SELECT ... WHERE user_id = ? ORDER BY timestamp DESC LIMIT limit
recentRows(c, user_id, limit) ==
  LET rows == c.messages[user_id]
      n == min(Len(rows), limit)
  IN  [i \in 1..n |-> rows[Len(rows) + 1 - i]]

scoreOf(raw) == min(raw * ScorePerKeyword, MaxScore)

analyze_personality(c, user_id) ==
  LET fetched == recentRows(c, user_id, PersonalityWindow)
      messages == [i \in 1..Len(fetched) |-> lower(fetched[i].message_text)]
      all_text == join(messages)
  IN  [trait \in Traits |->
         LET keywords == personality_indicators[trait]
         IN  scoreOf(sumSeq([k \in 1..Len(keywords) |->
                               count(all_text, keywords[k])]))]

----------------------------------------------------------------------------
(* analyze_message (bot.py 207-247).  outcome says which statement, if     *)
(* any, raises: the handler has no try/except and never rolls back.        *)

Outcomes == {"ok", "insert_fails", "update_fails"}

NoReply == [kind |-> "none"]

\* the total tested before the increment instead of after it
feedbackDueBeforeIncrement(total_msgs) ==
  (total_msgs - 1) % FeedbackEvery = 0

feedbackDue(total_msgs) == total_msgs % FeedbackEvery = 0

\* the values bound to INSERT INTO messages
messageRow(message_text, at, polarity) ==
  [message_text |-> message_text,
   timestamp |-> at,
   sentiment_score |-> polarity,
   word_count |-> wordCount(message_text)]

analyze_message(st, user_id, message_text, at, outcome) ==
  LET registered == register_user(st, user_id)
      sentiment == analyze_sentiment(message_text)
      row == messageRow(message_text, at, sentiment.polarity)
      inserted == [registered EXCEPT
                     !.conn = insertMessage(@, user_id, row)]
      updated == [inserted EXCEPT
                    !.conn = updateTotalMessages(@, user_id)]
      stored == commit(updated)
      total_msgs == stored.conn.users[user_id].total_messages
      stress == detect_stress_level(message_text)
  IN  CASE outcome = "insert_fails" ->
             [st |-> registered, raised |-> TRUE, out |-> NoReply]
        [] outcome = "update_fails" ->
             [st |-> inserted, raised |-> TRUE, out |-> NoReply]
        [] OTHER ->
             [st |-> stored, raised |-> FALSE,
              out |-> IF feedbackDue(total_msgs)
                      THEN [kind |-> "feedback",
                            number |-> total_msgs,
                            mood |-> sentiment.mood,
                            stress |-> stress.category,
                            confidence |-> sentiment.confidence]
                      ELSE NoReply]

----------------------------------------------------------------------------
(* The report commands.  Each returns the reply it sends; none writes.     *)

Insufficient(report) == [kind |-> "insufficient", report |-> report]

column(rows, name) == [i \in 1..Len(rows) |-> rows[i][name]]

\* the newest-first list read as oldest-first
moodTrendReversed(sentiments) ==
  IF Len(sentiments) > 1 /\ sentiments[Len(sentiments)] > sentiments[1]
  THEN "improving" ELSE "declining"

moodTrend(sentiments) ==
  IF Len(sentiments) > 1 /\ sentiments[1] > sentiments[Len(sentiments)]
  THEN "improving" ELSE "declining"

mood_analysis(c, user_id) ==
  LET recent_data == recentRows(c, user_id, MoodWindow)
      sentiments == column(recent_data, "sentiment_score")
      avg_sentiment == mean(sentiments)
      mood_trend == moodTrend(sentiments)
      latest_text == recent_data[1].message_text
      current_sentiment == analyze_sentiment(latest_text)
      stress == detect_stress_level(latest_text)
  IN  IF recent_data = <<>> THEN Insufficient("mood")
      ELSE [kind |-> "mood",
            mood |-> current_sentiment.mood,
            stress |-> stress.category,
            intensity |-> current_sentiment.confidence,
            avg_sentiment |-> avg_sentiment,
            mood_trend |-> mood_trend,
            analysed |-> Len(recent_data),
            insights |-> IF below(avg_sentiment, -30) THEN "seek support"
                         ELSE IF above(avg_sentiment, 30) THEN "positive"
                         ELSE "balanced",
            stress_note |-> stress.level > 5]

\* max(personality_scores, key=personality_scores.get): the first trait, in
\* the dict's insertion order, whose score is the greatest
\* the last of the traits with the highest score instead of the first
dominantTraitLast(personality_scores) ==
  LET best == CHOOSE i \in 1..Len(TraitOrder) :
                /\ \A j \in 1..Len(TraitOrder) :
                     personality_scores[TraitOrder[j]]
                       <= personality_scores[TraitOrder[i]]
                /\ \A j \in (i + 1)..Len(TraitOrder) :
                     personality_scores[TraitOrder[j]]
                       < personality_scores[TraitOrder[i]]
  IN  TraitOrder[best]

\* max(personality_scores, key=personality_scores.get): the first key, in
\* the dict's insertion order, whose score no other key exceeds
dominantTrait(personality_scores) ==
  LET best == CHOOSE i \in 1..Len(TraitOrder) :
                /\ \A j \in 1..Len(TraitOrder) :
                     personality_scores[TraitOrder[j]]
                       <= personality_scores[TraitOrder[i]]
                /\ \A j \in 1..(i - 1) :
                     personality_scores[TraitOrder[j]]
                       < personality_scores[TraitOrder[i]]
  IN  TraitOrder[best]

InsightThreshold ==
  [extraversion |-> 60, openness |-> 70, conscientiousness |-> 65,
   agreeableness |-> 70, neuroticism |-> 60]

personality_analysis(c, user_id) ==
  LET personality_scores == analyze_personality(c, user_id)
  IN  IF \A trait \in Traits : personality_scores[trait] = 0
      THEN Insufficient("personality")
      ELSE [kind |-> "personality",
            scores |-> personality_scores,
            filled |-> [trait \in Traits |-> personality_scores[trait] \div 10],
            dominant_trait |-> dominantTrait(personality_scores),
            insights |-> {trait \in Traits :
                            personality_scores[trait] > InsightThreshold[trait]}]

\* the CASE expression of the activity query
timePeriod(hour) ==
  IF hour >= 6 /\ hour <= 12 THEN "Morning"
  ELSE IF hour >= 12 /\ hour <= 18 THEN "Afternoon"
  ELSE IF hour >= 18 /\ hour <= 22 THEN "Evening"
  ELSE "Night"

Periods == {"Morning", "Afternoon", "Evening", "Night"}

\* the groups of GROUP BY time_period leave the query in key order
BeforeInKeyOrder(period) ==
  CASE period = "Afternoon" -> {}
    [] period = "Evening"   -> {"Afternoon"}
    [] period = "Morning"   -> {"Afternoon", "Evening"}
    [] OTHER                -> {"Afternoon", "Evening", "Morning"}

selectRows(rows, idx) ==
  LET RECURSIVE pick(_)
      pick(i) == IF i > Len(rows) THEN <<>>
                 ELSE IF i \in idx THEN <<rows[i]>> \o pick(i + 1)
                 ELSE pick(i + 1)
  IN  pick(1)

\* the threshold compared with <= instead of <
tooFewForReportInclusive(total) == total <= MinReportMessages

tooFewForReport(total) == total < MinReportMessages

generate_report(c, user_id, at) ==
  LET rows == c.messages[user_id]
      total_messages == Len(rows)
      avg_sentiment == mean(column(rows, "sentiment_score"))
      avg_words == mean(column(rows, "word_count"))
      week_ago == at - DaysPerWeek * HoursPerDay
      recent == selectRows(rows, {i \in 1..Len(rows) : rows[i].timestamp > week_ago})
      dates == {dateOf(recent[i].timestamp) : i \in 1..Len(recent)}
      daily_data ==
        [date \in dates |->
           LET day == selectRows(recent, {i \in 1..Len(recent) : dateOf(recent[i].timestamp) = date})
               sentiment == mean(column(day, "sentiment_score"))
           IN  [sentiment |-> sentiment,
                count |-> Len(day),
                mood |-> IF above(sentiment, 10) THEN "Positive"
                         ELSE IF below(sentiment, -10) THEN "Negative"
                         ELSE "Neutral"]]
      personality == analyze_personality(c, user_id)
      countIn(period) ==
        Cardinality({i \in 1..Len(rows) :
                       timePeriod(hourOf(rows[i].timestamp)) = period})
      time_patterns ==
        [period \in {q \in Periods : countIn(q) > 0} |-> countIn(period)]
      \* ORDER BY msg_count DESC over groups that come out in key order
      most_active ==
        CHOOSE period \in DOMAIN time_patterns :
          \A q \in DOMAIN time_patterns :
            \/ time_patterns[q] < time_patterns[period]
            \/ time_patterns[q] = time_patterns[period] /\ q \notin BeforeInKeyOrder(period)
  IN  IF tooFewForReport(total_messages) THEN Insufficient("report")
      ELSE [kind |-> "report",
            total_messages |-> total_messages,
            avg_sentiment |-> avg_sentiment,
            avg_words |-> avg_words,
            daily_data |-> daily_data,
            above_average |-> [trait \in {t \in Traits : personality[t] > 50}
                                 |-> personality[trait]],
            most_active |-> most_active,
            time_patterns |-> time_patterns,
            recommendations |->
              (IF below(avg_sentiment, -20) THEN {"boost mood"}
               ELSE IF above(avg_sentiment, 20) THEN {"keep it up"}
               ELSE {})
              \cup (IF below(avg_words, 500) THEN {"express more"} ELSE {})]

\* the difference taken in hours instead of timedelta.days
daysActiveInHours(first_message, at) == (at - first_message) + 1

daysActive(first_message, at) ==
  (at - first_message) \div HoursPerDay + 1

user_stats(c, user_id, at) ==
  LET rows == c.messages[user_id]
      total_msgs == Len(rows)
      avg_sentiment == mean(column(rows, "sentiment_score"))
      stamps == {rows[i].timestamp : i \in 1..Len(rows)}
      last_message == CHOOSE t \in stamps : \A x \in stamps : x <= t
      first_message == CHOOSE t \in stamps : \A x \in stamps : t <= x
      days_active == daysActive(first_message, at)
  IN  IF total_msgs = 0 THEN Insufficient("stats")
      ELSE [kind |-> "stats",
            total_msgs |-> total_msgs,
            days_active |-> days_active,
            per_day |-> ratio(total_msgs, days_active),
            avg_sentiment |-> avg_sentiment,
            category |-> IF above(avg_sentiment, 10) THEN "Positive"
                         ELSE IF below(avg_sentiment, -10) THEN "Negative"
                         ELSE "Neutral",
            last_message |-> dateOf(last_message),
            accuracy |-> min(total_msgs * 5, 95)]

----------------------------------------------------------------------------
(* The handlers as actions.  The dispatcher runs one handler at a time and *)
(* no handler awaits before its reply, so each is one step.  at is the     *)
(* clock reading the handler gets from datetime.now().                     *)

NoUpdate ==
  [op |-> "none", user |-> "none", at |-> 0, raised |-> FALSE, out |-> NoReply]

ReportOps == {"mood", "personality", "report", "stats"}

\* datetime.now() does not run backwards
Handled(op, user_id, at, raised, out) ==
  /\ at >= now
  /\ now' = at
  /\ last' = [op |-> op, user |-> user_id, at |-> at, raised |-> raised,
              out |-> out]
  /\ prev' = IF op \in ReportOps /\ last.op = op /\ last.user = user_id
             THEN last ELSE NoUpdate

StartCommand(user_id, at) ==
  LET st == register_user([conn |-> conn, disk |-> disk], user_id)
  IN  /\ conn' = st.conn
      /\ disk' = st.disk
      /\ Handled("start", user_id, at, FALSE, [kind |-> "welcome"])
      /\ UNCHANGED feedbackLog

AnalyzeMessage(user_id, message_text, at, outcome) ==
  LET r == analyze_message([conn |-> conn, disk |-> disk], user_id,
                           message_text, at, outcome)
  IN  /\ conn' = r.st.conn
      /\ disk' = r.st.disk
      /\ Handled("message", user_id, at, r.raised, r.out)
      /\ feedbackLog' =
           IF r.out.kind = "feedback"
           THEN [feedbackLog EXCEPT ![user_id] = Append(@, r.out.number)]
           ELSE feedbackLog

MoodAnalysis(user_id, at) ==
  /\ Handled("mood", user_id, at, FALSE, mood_analysis(conn, user_id))
  /\ UNCHANGED <<conn, disk, feedbackLog>>

PersonalityAnalysis(user_id, at) ==
  /\ Handled("personality", user_id, at, FALSE,
             personality_analysis(conn, user_id))
  /\ UNCHANGED <<conn, disk, feedbackLog>>

GenerateReport(user_id, at) ==
  /\ Handled("report", user_id, at, FALSE, generate_report(conn, user_id, at))
  /\ UNCHANGED <<conn, disk, feedbackLog>>

UserStats(user_id, at) ==
  /\ Handled("stats", user_id, at, FALSE, user_stats(conn, user_id, at))
  /\ UNCHANGED <<conn, disk, feedbackLog>>

ButtonData == {"mood", "personality", "report"}

\* button_callback assigns update.message before it calls the command:
\* a library release whose Update objects are frozen raises there, an
\* earlier one goes on to the command.
button_callback(c, user_id, data, at, frozen) ==
  IF frozen THEN [raised |-> TRUE, out |-> NoReply]
  ELSE [raised |-> FALSE,
        out |-> CASE data = "mood" -> mood_analysis(c, user_id)
                  [] data = "personality" -> personality_analysis(c, user_id)
                  [] OTHER -> generate_report(c, user_id, at)]

ButtonCallback(user_id, data, at, frozen) ==
  LET r == button_callback(conn, user_id, data, at, frozen)
  IN  /\ Handled("button", user_id, at, r.raised, r.out)
      /\ UNCHANGED <<conn, disk, feedbackLog>>

----------------------------------------------------------------------------
(* Clock readings: hours counted from midnight of day 0.                   *)
(* 36 = day 1 12:00, 47 = day 1 23:00, 49 = day 2 01:00, 217 = day 9 01:00 *)

ClockReadings == {36, 47, 49, 217}

StartedAt == CHOOSE t \in ClockReadings : \A x \in ClockReadings : t <= x

rowsStored == Len(conn.messages["u1"]) + Len(conn.messages["u2"])

\* rows of messages that total_messages does not count
orphans(user_id) ==
  Len(conn.messages[user_id]) - conn.users[user_id].total_messages

----------------------------------------------------------------------------
(* Spec: the bot on a new bot_data.db, two users, every handler, every     *)
(* failure of the two statements of analyze_message.                       *)

MaxMessages == 3

Init ==
  /\ conn = EmptyStore
  /\ disk = EmptyStore
  /\ now = StartedAt
  /\ last = NoUpdate
  /\ prev = NoUpdate
  /\ feedbackLog = [u \in Users |-> <<>>]

Next ==
  \E user_id \in Users, at \in {47, 49} :
    \/ StartCommand(user_id, at)
    \/ MoodAnalysis(user_id, at)
    \/ PersonalityAnalysis(user_id, at)
    \/ GenerateReport(user_id, at)
    \/ UserStats(user_id, at)
    \/ \E data \in ButtonData, frozen \in BOOLEAN :
         ButtonCallback(user_id, data, at, frozen)
    \/ \E outcome \in Outcomes :
         /\ rowsStored < MaxMessages
         /\ AnalyzeMessage(user_id, TxtOk, at, outcome)

Spec == Init /\ [][Next]_vars

----------------------------------------------------------------------------
(* SpecFeedback: the same bot over enough messages for the counters to     *)
(* pass 10 and 20.                                                         *)

MaxStored == 22
MaxOrphans == 1

NextFeedback ==
  \E user_id \in Users :
    \/ StartCommand(user_id, now)
    \/ MoodAnalysis(user_id, now)
    \/ UserStats(user_id, now)
    \/ \E outcome \in Outcomes :
         /\ rowsStored < MaxStored
         /\ outcome = "update_fails" =>
              orphans("u1") + orphans("u2") < MaxOrphans
         /\ AnalyzeMessage(user_id, TxtOk, now, outcome)

SpecFeedback == Init /\ [][NextFeedback]_vars

----------------------------------------------------------------------------
(* The bot restarted on a bot_data.db that holds an earlier history of     *)
(* user u1: pre rows written on day 0 at 18:00, the first with one text    *)
(* and the others with another, each counted in total_messages.            *)

PersistedAt == HoursPerDay - 6
MaxNew == 2

history(pre, first, filler) ==
  [i \in 1..pre |->
     LET message_text == IF i = 1 THEN first ELSE filler
     IN  messageRow(message_text, PersistedAt,
                    analyze_sentiment(message_text).polarity)]

persistedStore(rows) ==
  IF rows = <<>> THEN EmptyStore
  ELSE [users |-> [u \in Users |->
                     IF u = "u1"
                     THEN [registered |-> TRUE, total_messages |-> Len(rows)]
                     ELSE NoRow],
        messages |-> [u \in Users |-> IF u = "u1" THEN rows ELSE <<>>]]

InitPersisted(preCounts, firsts, fillers) ==
  /\ \E pre \in preCounts, first \in firsts, filler \in fillers :
       conn = persistedStore(history(pre, first, filler))
  /\ disk = conn
  /\ now = StartedAt
  /\ last = NoUpdate
  /\ prev = NoUpdate
  /\ feedbackLog = [u \in Users |-> <<>>]

roomFor(preCounts) ==
  \E pre \in preCounts :
    /\ pre <= Len(conn.messages["u1"])
    /\ Len(conn.messages["u1"]) < pre + MaxNew

\* SpecReports: histories around the report thresholds, the four reports
ReportHistories == {0, MinReportMessages - 1}

InitReports ==
  InitPersisted(ReportHistories, {TxtOk, TxtSad}, {TxtOk, TxtSad})

NextReports ==
  \E at \in {47, 49, 217} :
    \/ MoodAnalysis("u1", at)
    \/ PersonalityAnalysis("u1", at)
    \/ GenerateReport("u1", at)
    \/ UserStats("u1", at)
    \/ \E message_text \in {TxtOk, TxtSad} :
         /\ roomFor(ReportHistories)
         /\ AnalyzeMessage("u1", message_text, at, "ok")

SpecReports == InitReports /\ [][NextReports]_vars

\* SpecWindows: histories one row short of the mood and personality windows
WindowHistories == {0, MoodWindow - 1, PersonalityWindow - 1}

InitWindows ==
  InitPersisted(WindowHistories, {TxtOk, TxtSad, TxtParty}, {TxtOk, TxtSad})

NextWindows ==
  \/ MoodAnalysis("u1", now)
  \/ PersonalityAnalysis("u1", now)
  \/ \E message_text \in {TxtOk, TxtSad} :
       /\ roomFor(WindowHistories)
       /\ AnalyzeMessage("u1", message_text, now, "ok")

SpecWindows == InitWindows /\ [][NextWindows]_vars

\* SpecKeywords: a new user and one a message short of the quick analysis,
\* messages that hold stress and trait keywords, the personality report
KeywordHistories == {0, FeedbackEvery - 1}

InitKeywords == InitPersisted(KeywordHistories, {TxtOk}, {TxtOk})

NextKeywords ==
  \/ PersonalityAnalysis("u1", now)
  \/ \E message_text \in Texts :
       /\ roomFor(KeywordHistories)
       /\ AnalyzeMessage("u1", message_text, now, "ok")

SpecKeywords == InitKeywords /\ [][NextKeywords]_vars

----------------------------------------------------------------------------
(* The claims                                                              *)

\* C1: in every reachable state - also after the INSERT or the UPDATE of
\* analyze_message has failed and after any later commit on the shared
\* connection - the committed total_messages of each user equals the number
\* of that user's committed message rows.
MessageAndCounterAtomic ==
  \A u \in Users : disk.users[u].total_messages = Len(disk.messages[u])

\* C2: analyze_message answers a message with the quick feedback exactly
\* when the user's total_messages after the increment is a multiple of 10,
\* the feedback carries that total, a message whose handler raised gets no
\* feedback, and each multiple of 10 a user's counter has passed has been
\* answered with feedback exactly once, in order.
FeedbackOnEveryTenth ==
  /\ last.op = "message" =>
       LET total == conn.users[last.user].total_messages
       IN  IF last.raised THEN last.out = NoReply
           ELSE /\ (last.out.kind = "feedback") = (total % 10 = 0)
                /\ last.out.kind = "feedback" => last.out.number = total
                /\ last.out.kind # "feedback" => last.out = NoReply
  /\ \A u \in Users :
       feedbackLog[u] =
         [i \in 1..(conn.users[u].total_messages \div 10) |-> 10 * i]

\* C2 witness: a user's 20th counted message has just been answered with
\* the feedback, the 10th before it, while the other user has sent messages
FeedbackOnTwentieth ==
  /\ last.op = "message"
  /\ last.out.kind = "feedback"
  /\ last.out.number = 20
  /\ feedbackLog[last.user] = <<10, 20>>
  /\ \E u \in Users \ {last.user} : conn.users[u].total_messages > 0

\* C3: the comprehensive report counts every message of the user in exactly
\* one time-of-day bucket: Morning iff 6 <= h < 12, Afternoon iff
\* 12 <= h < 18, Evening iff 18 <= h < 22, Night otherwise; the counts sum
\* to the total message count.
claimedPeriod(hour) ==
  IF 6 <= hour /\ hour < 12 THEN "Morning"
  ELSE IF 12 <= hour /\ hour < 18 THEN "Afternoon"
  ELSE IF 18 <= hour /\ hour < 22 THEN "Evening"
  ELSE "Night"

TimeBucketsHalfOpen ==
  (last.op = "report" /\ last.out.kind = "report") =>
    LET rows == conn.messages[last.user]
        claimed(period) ==
          Cardinality({i \in 1..Len(rows) :
                         claimedPeriod(hourOf(rows[i].timestamp)) = period})
        reported(period) ==
          IF period \in DOMAIN last.out.time_patterns
          THEN last.out.time_patterns[period] ELSE 0
    IN  /\ \A period \in Periods : reported(period) = claimed(period)
        /\ reported("Morning") + reported("Afternoon") + reported("Evening")
             + reported("Night") = last.out.total_messages

\* C4: the stats report's days-active is the inclusive count of calendar
\* days from the date of the user's first message to the current date, at
\* least 1.
DaysActiveCountsCalendarDays ==
  (last.op = "stats" /\ last.out.kind = "stats") =>
    LET rows == conn.messages[last.user]
        first == rows[1].timestamp
    IN  /\ last.out.days_active = dateOf(last.at) - dateOf(first) + 1
        /\ last.out.days_active >= 1

\* C5 as claimed: a report command issued again right after itself, with
\* nothing ingested in between, gets the same reply whatever time has passed.
ReportsIdempotent ==
  prev.op \in ReportOps => last.out = prev.out

\* C5 as amended: the mood and personality reports are the same whatever time
\* has passed; the stats report is the same while the count of whole days
\* since the first message is the same, and the comprehensive report while
\* the same rows are younger than seven days.
ReportsIdempotentUpToClock ==
  prev.op \in ReportOps =>
    LET rows == conn.messages[last.user]
        wholeDays(at) == (at - rows[1].timestamp) \div 24
        young(at) == {i \in 1..Len(rows) : rows[i].timestamp > at - 7 * 24}
    IN  CASE prev.op = "stats" ->
               (rows = <<>> \/ wholeDays(prev.at) = wholeDays(last.at))
                 => last.out = prev.out
          [] prev.op = "report" ->
               young(prev.at) = young(last.at) => last.out = prev.out
          [] OTHER -> last.out = prev.out

\* C5 witness: the stats report was asked for twice, the second time two
\* hours later and past midnight, and both times it was a full report
StatsAskedAgainLater ==
  /\ prev.op = "stats"
  /\ prev.at < last.at
  /\ dateOf(prev.at) < dateOf(last.at)
  /\ last.out.kind = "stats"
  /\ last.out = prev.out

\* C6: each report command answers with its insufficient-data reply exactly
\* when its minimum history is not met and with the full report otherwise:
\* mood and stats with 0 rows, the comprehensive report with fewer than 5,
\* the personality report when no keyword of any trait occurs in the texts
\* of the 50 newest rows; no report command raises.
windowRaw(rows, trait) ==
  LET w == min(Len(rows), 50)
      keywords == personality_indicators[trait]
  IN  sumSeq([i \in 1..w |->
                LET text == lower(rows[Len(rows) - w + i].message_text)
                IN  sumSeq([k \in 1..Len(keywords) |->
                              count(text, keywords[k])])])

InsufficientDataExactly ==
  last.op \in ReportOps =>
    LET rows == conn.messages[last.user]
        unmet == CASE last.op = "report" -> Len(rows) < 5
                   [] last.op = "personality" ->
                        \A trait \in Traits : windowRaw(rows, trait) = 0
                   [] OTHER -> Len(rows) = 0
    IN  /\ ~last.raised
        /\ IF unmet THEN last.out = [kind |-> "insufficient", report |-> last.op]
           ELSE last.out.kind = last.op

\* C6 witness: the comprehensive report refused with 4 rows stored, after
\* the mood report was given
ReportRefusedAtFour ==
  /\ last.op = "report"
  /\ last.out.kind = "insufficient"
  /\ Len(conn.messages[last.user]) = 4

\* C7: over the min(n, 20) newest rows the mood report's trend is improving
\* exactly when the oldest row of that window has a lower stored polarity
\* than the newest, and declining otherwise; the average and the count are
\* those of that window, so older rows have no influence.
MoodTrendOldestVsNewest ==
  (last.op = "mood" /\ last.out.kind = "mood") =>
    LET rows == conn.messages[last.user]
        n == Len(rows)
        w == min(n, 20)
        polarity(i) == rows[i].sentiment_score
    IN  /\ last.out.mood_trend =
             IF polarity(n - w + 1) < polarity(n)
             THEN "improving" ELSE "declining"
        /\ last.out.analysed = w
        /\ last.out.avg_sentiment =
             ratio(sumSeq([i \in 1..w |-> polarity(n - w + i)]), w)

\* C7 witness: 21 rows, the oldest and the newest row of the window have the
\* same polarity, so the trend is declining, while the row that has left the
\* window has a lower polarity than the newest one
MoodTrendIgnoresOlderRow ==
  /\ last.op = "mood"
  /\ last.out.kind = "mood"
  /\ Len(conn.messages[last.user]) = 21
  /\ last.out.mood_trend = "declining"
  /\ conn.messages[last.user][2].sentiment_score
       = conn.messages[last.user][21].sentiment_score
  /\ conn.messages[last.user][1].sentiment_score
       < conn.messages[last.user][21].sentiment_score

\* C8: the report commands and the button callbacks write nothing, and the
\* rows of its user that a report reads are all counted in total_messages.
ReportsReadOnlyAndCommitted ==
  [][last'.op \in ReportOps \cup {"button"} =>
       /\ UNCHANGED <<conn, disk, feedbackLog>>
       /\ Len(conn'.messages[last'.user])
            = conn'.users[last'.user].total_messages
       /\ conn'.messages[last'.user] = disk'.messages[last'.user]]_vars

\* C9: an update of one user leaves every other user's counter, message
\* rows (as seen by the connection and as committed) and feedback unchanged.
UsersIndependent ==
  [][\A u \in Users :
       last'.user # u =>
         /\ conn'.users[u] = conn.users[u]
         /\ conn'.messages[u] = conn.messages[u]
         /\ disk'.users[u] = disk.users[u]
         /\ disk'.messages[u] = disk.messages[u]
         /\ feedbackLog'[u] = feedbackLog[u]]_vars

\* C10: when the personality command runs, analyze_personality gives each
\* trait min(5 * raw, 100), raw being the occurrences of the trait's keywords
\* in the texts of the 50 newest rows (all rows when fewer); the score lies
\* in 0..100, does not decrease with raw and does not change when the rows
\* of the window are put in another order.
TraitScoresOverNewestFifty ==
  last.op = "personality" =>
  LET rows == conn.messages["u1"]
      n == Len(rows)
      w == min(n, 50)
      scores == analyze_personality(conn, "u1")
      raw == [trait \in Traits |-> windowRaw(rows, trait)]
      backwards ==
        [conn EXCEPT !.messages["u1"] = [i \in 1..w |-> rows[n + 1 - i]]]
  IN  /\ \A trait \in Traits :
           /\ scores[trait] = min(5 * raw[trait], 100)
           /\ scores[trait] \in 0..100
      /\ \A t1, t2 \in Traits :
           raw[t1] <= raw[t2] => scores[t1] <= scores[t2]
      /\ analyze_personality(backwards, "u1") = scores

\* C10 witness: 51 rows, only the oldest one holds a keyword ("sad"), and
\* the personality command finds every score 0
TraitRowLeftTheWindow ==
  /\ last.op = "personality"
  /\ last.out.kind = "insufficient"
  /\ Len(conn.messages["u1"]) = 51
  /\ conn.messages["u1"][1].message_text = TxtSad
  /\ \A i \in 2..51 : conn.messages["u1"][i].message_text = TxtOk

\* the stress keywords that occur in the lower-cased text, each one once
keywordsPresent(text) ==
  LET lowered == lower(text)
  IN  {keyword \in {stress_keywords[k] : k \in 1..Len(stress_keywords)} :
         \E i \in 1..Len(text) :
           /\ lowered[i] = keyword[1]
           /\ i + Len(keyword) - 1 <= Len(text)
           /\ \A j \in 1..Len(keyword) : lowered[i + j - 1] = keyword[j]}

\* C11: for every message text handled, detect_stress_level returns the
\* level min(2 * k, 10), k being the number of distinct stress keywords (of
\* the list of 7) that occur in the lower-cased text, however often each
\* occurs; the level lies in 0..10 and does not decrease with k; the
\* category is High iff level >= 7, Moderate iff 4 <= level < 7 and Low
\* otherwise, and it is the category the quick analysis shows.
StressLevelFromDistinctKeywords ==
  LET rows == conn.messages["u1"]
      texts == {rows[i].message_text : i \in 1..Len(rows)}
      k == [text \in texts |-> Cardinality(keywordsPresent(text))]
      stress == [text \in texts |-> detect_stress_level(text)]
  IN  /\ Len(stress_keywords) = 7
      /\ \A text \in texts :
           /\ stress[text].level = min(2 * k[text], 10)
           /\ stress[text].level \in 0..10
           /\ stress[text].category = "High Stress"
                 <=> stress[text].level >= 7
           /\ stress[text].category = "Moderate Stress"
                 <=> (4 <= stress[text].level /\ stress[text].level < 7)
           /\ stress[text].category = "Low Stress"
                 <=> stress[text].level < 4
      /\ \A t1, t2 \in texts :
           k[t1] <= k[t2] => stress[t1].level <= stress[t2].level
      /\ last.op = "message" /\ last.out.kind = "feedback"
           => last.out.stress = stress[rows[Len(rows)].message_text].category

\* C11 witness: the tenth message names three keywords and is answered with
\* Moderate, after a message that repeats one keyword three times
ThreeKeywordsModerate ==
  /\ last.op = "message"
  /\ last.out.kind = "feedback"
  /\ last.out.number = FeedbackEvery
  /\ conn.messages["u1"][FeedbackEvery].message_text = TxtThree
  /\ Cardinality(keywordsPresent(TxtThree)) = 3
  /\ last.out.stress = "Moderate Stress"

\* C12: the dominant trait of the personality report has the highest score,
\* and among several traits with the highest score it is the first in the
\* order extraversion, openness, conscientiousness, agreeableness,
\* neuroticism; so it depends on the scores only.
DominantTraitFirstOfTheBest ==
  last.op = "personality" /\ last.out.kind = "personality" =>
  LET priority == <<"extraversion", "openness", "conscientiousness",
                    "agreeableness", "neuroticism">>
      scores == last.out.scores
      highest == CHOOSE x \in {scores[trait] : trait \in Traits} :
                   \A trait \in Traits : scores[trait] <= x
      best == {i \in 1..5 : scores[priority[i]] = highest}
  IN  /\ scores[last.out.dominant_trait] = highest
      /\ \E i \in best :
           /\ last.out.dominant_trait = priority[i]
           /\ \A j \in best : i <= j

\* C12 witness: "art" and "help" give openness and agreeableness the same
\* highest score, and the report names openness
OpennessBeforeAgreeableness ==
  /\ last.op = "personality"
  /\ last.out.kind = "personality"
  /\ last.out.scores["openness"] = ScorePerKeyword
  /\ last.out.scores["agreeableness"] = ScorePerKeyword
  /\ \A trait \in Traits : last.out.scores[trait] <= ScorePerKeyword
  /\ last.out.dominant_trait = "openness"

====
